---- MODULE Spec2Model ----
(***************************************************************************)
(* Model of transparent_png_colorizer.py and color_cube.py.                *)
(*                                                                         *)
(* Real numbers of the program (HSL and RGB components in [0,1]) are       *)
(* fixed-point integers: One(D) units make 1.0 for a grid of D divisions,  *)
(* chosen so that every linspace sample, every jitter step and every       *)
(* conversion below is exact.  RGB components carry the denominator        *)
(* One(D)^3 (hsl_to_rgb multiplies three components).                       *)
(*                                                                         *)
(* hsl_to_rgb, the scaling to 0..255 and the alpha blend are computed in   *)
(* exact arithmetic.  The sums of add_disturbance, whose results have to   *)
(* stay inside given ranges, are floating-point sums: exact on the lattice *)
(* except where the sum lands at 1/2 or above.  There the representable    *)
(* numbers are UlpBelowOne units apart while the numbers next to 0 are one *)
(* unit apart, the way binary64 has spacing 2^-53 below 1.0 and a far      *)
(* finer spacing near 0.                                                   *)
(***************************************************************************)
EXTENDS Integers, Sequences, FiniteSets, TLC

(* ---------------------------------------------------------------- bounds *)
MaxDivisions == 2      \* largest DIVISIONS the grid is built with
MaxNumColors == 9      \* largest --num_colors (one more than 2^3 cells)
NoiseRes     == 1      \* jitter draws are multiples of step / NoiseRes
UlpBelowOne  == 4      \* spacing of representable numbers in [1/2, 1]

Abs(x) == IF x < 0 THEN -x ELSE x
Min(a, b) == IF a <= b THEN a ELSE b
Max(a, b) == IF a >= b THEN a ELSE b

\* Fixed-point unit: 1.0 == One(D).  Halves of it divide by 2*D*NoiseRes (the
\* jitter steps) and by D-1 (the linspace spacing).
One(D) == UlpBelowOne * 2 * (2 * Max(D, 1) * NoiseRes) * Max(D - 1, 1)

(* ------------------------------------------------- color_cube.py: config *)
\* The module constants DIVISIONS, S_MIN .. DISTURB_L_MAX, as one record.
\* Ranges are given in halves (0, 1/2, 1) and scaled to the unit of D.
Range(lo, hi) == <<lo, hi>>
RangeSets ==
    { \* <<S range, L range, DISTURB_S range, DISTURB_L range>>
      <<Range(0, 2), Range(0, 2), Range(0, 2), Range(0, 2)>>,   \* the source's values
      <<Range(1, 2), Range(0, 1), Range(0, 2), Range(0, 2)>>,
      <<Range(0, 2), Range(0, 2), Range(1, 2), Range(0, 1)>>,   \* narrower disturbance
      <<Range(2, 0), Range(0, 2), Range(0, 2), Range(0, 2)>>,   \* S_MIN > S_MAX
      <<Range(0, 2), Range(2, 1), Range(0, 2), Range(0, 2)>> }  \* L_MIN > L_MAX

MakeConfig(D, rs) ==
    LET h == One(D) \div 2 IN
    [ DIVISIONS     |-> D,
      S_MIN         |-> rs[1][1] * h, S_MAX         |-> rs[1][2] * h,
      L_MIN         |-> rs[2][1] * h, L_MAX         |-> rs[2][2] * h,
      DISTURB_S_MIN |-> rs[3][1] * h, DISTURB_S_MAX |-> rs[3][2] * h,
      DISTURB_L_MIN |-> rs[4][1] * h, DISTURB_L_MAX |-> rs[4][2] * h ]

Configs == { MakeConfig(D, rs) : D \in -1..MaxDivisions, rs \in RangeSets }

DefaultRanges(c) ==
    /\ c.S_MIN = 0 /\ c.S_MAX = One(c.DIVISIONS)
    /\ c.L_MIN = 0 /\ c.L_MAX = One(c.DIVISIONS)

(* ------------------------------------------------ color_cube.py: hsl_to_rgb *)
\* colorsys._v(m1, m2, hue): m1, m2 over U^2, hue3 = 3*hue over U; result over U^3.
HlsV(m1, m2, hue3in, U) ==
    LET hue3 == hue3in % (3 * U) IN
    IF 2 * hue3 < U THEN m1 * U + (m2 - m1) * 2 * hue3
    ELSE IF 2 * hue3 < 3 * U THEN m2 * U
    ELSE IF hue3 < 2 * U THEN m1 * U + (m2 - m1) * (2 * U - hue3) * 2
    ELSE m1 * U

\* hsl_to_rgb(h, s, l) = colorsys.hls_to_rgb(h, l, s); h, s, l over U, result over U^3.
hsl_to_rgb(h, s, l, U) ==
    IF s = 0 THEN <<l * U * U, l * U * U, l * U * U>>
    ELSE LET m2 == IF 2 * l <= U THEN l * (U + s) ELSE (l + s) * U - l * s
             m1 == 2 * l * U - m2
         IN <<HlsV(m1, m2, 3 * h + U, U), HlsV(m1, m2, 3 * h, U), HlsV(m1, m2, 3 * h - U, U)>>

(* ------------------------------------------- color_cube.py: create_hsl_space *)
PoolSize(D) == IF D <= 0 THEN 0 ELSE D * D * D

\* Cell c (1-based, C order) of a D x D x D array has indices (i, j, k).
CellI(c, D) == (c - 1) \div (D * D)
CellJ(c, D) == ((c - 1) \div D) % D
CellK(c, D) == (c - 1) % D

\* np.linspace(lo, hi, D)[j], endpoint included.
Linspace(lo, hi, D, j) == IF D = 1 THEN lo ELSE lo + (j * (hi - lo)) \div (D - 1)
\* np.linspace(0, 1, D, endpoint=False)[i].
LinspaceOpen(D, i) == (i * One(D)) \div D

GridHsl(c, cell) ==
    LET D == c.DIVISIONS IN
    << LinspaceOpen(D, CellI(cell, D)),
       Linspace(c.S_MIN, c.S_MAX, D, CellJ(cell, D)),
       Linspace(c.L_MIN, c.L_MAX, D, CellK(cell, D)) >>

\* np.linspace raises ValueError for a negative sample count and nothing else
\* in create_hsl_space checks the constants.
CreateRaises(c) == c.DIVISIONS < 0

create_hsl_space(c) ==
    LET P == PoolSize(c.DIVISIONS)
        U == One(c.DIVISIONS)
        hsl == [cell \in 1..P |-> GridHsl(c, cell)]
    IN [ hsl_cube |-> hsl,
         rgb_cube |-> [cell \in 1..P |-> hsl_to_rgb(hsl[cell][1], hsl[cell][2], hsl[cell][3], U)] ]

(* ---------------------------------------------- floating-point arithmetic *)
\* Nearest multiple of UlpBelowOne, ties to the even multiple (round-half-even).
RoundToUlp(z) ==
    LET q == z \div UlpBelowOne
        r == z % UlpBelowOne
    IN IF 2 * r < UlpBelowOne THEN q * UlpBelowOne
       ELSE IF 2 * r > UlpBelowOne THEN (q + 1) * UlpBelowOne
       ELSE IF q % 2 = 0 THEN q * UlpBelowOne ELSE (q + 1) * UlpBelowOne

\* x + y in floating point: exact below 1/2, rounded to the coarser spacing from
\* 1/2 on.
FloatAdd(x, y, U) ==
    LET z == x + y IN IF 2 * Abs(z) >= U THEN RoundToUlp(z) ELSE z

\* x % 1.0 on floats: fmod keeps the sign of x and is exact; a negative
\* remainder is then moved up by adding 1.0, which is a rounded addition.
FloatMod1(x, U) ==
    LET r == IF x >= 0 THEN x % U ELSE -((-x) % U)
    IN IF r < 0 THEN FloatAdd(r, U, U) ELSE r

\* np.clip(x, lo, hi) = minimum(maximum(x, lo), hi)
Clip(x, lo, hi) == Min(Max(x, lo), hi)

(* -------------------------------------------- color_cube.py: add_disturbance *)
h_step(c) == (One(c.DIVISIONS) \div c.DIVISIONS) \div 2
s_step(c) == ((c.S_MAX - c.S_MIN) \div c.DIVISIONS) \div 2
l_step(c) == ((c.L_MAX - c.L_MIN) \div c.DIVISIONS) \div 2

\* One iteration of the triple loop: the jittered HSL triple of one cell, for
\* the draws noise = <<dh, ds, dl>>.
DisturbCell(c, hsl, noise) ==
    LET U == One(c.DIVISIONS) IN
    << FloatMod1(FloatAdd(hsl[1], noise[1], U), U),
       Clip(FloatAdd(hsl[2], noise[2], U), c.DISTURB_S_MIN, c.DISTURB_S_MAX),
       Clip(FloatAdd(hsl[3], noise[3], U), c.DISTURB_L_MIN, c.DISTURB_L_MAX) >>

\* h_step = 1.0 / DIVISIONS / 2 raises ZeroDivisionError when DIVISIONS is 0.
DisturbRaises(c) == c.DIVISIONS = 0

\* add_disturbance(hsl_cube, rgb_cube) for the draws field[cell]: two new
\* arrays; the arguments are copied, not written.
add_disturbance(c, hsl, rgb, field) ==
    LET U == One(c.DIVISIONS)
        dh == [cell \in 1..Len(hsl) |-> DisturbCell(c, hsl[cell], field[cell])]
    IN [ hsl_cube |-> dh,
         rgb_cube |-> [cell \in 1..Len(hsl) |-> hsl_to_rgb(dh[cell][1], dh[cell][2], dh[cell][3], U)] ]

\* np.random.uniform(-step, step): the multiples of step / NoiseRes in the
\* interval, and the two nonzero draws closest to 0.
NoiseDraws(step) ==
    IF step = 0 THEN {0}
    ELSE { (k * Abs(step)) \div NoiseRes : k \in -NoiseRes..NoiseRes } \cup {-1, 1}

\* The draws of one add_disturbance call over the whole grid, from a bounded
\* family: hue jitter kh and saturation/lightness jitter ks, -ks (in multiples
\* of step / NoiseRes), with the sign alternating from cell to cell.
NoiseFields(c) ==
    LET P == PoolSize(c.DIVISIONS)
        sgn(cell) == IF cell % 2 = 0 THEN 1 ELSE -1
    IN { [cell \in 1..P |->
            << (sgn(cell) * kh * h_step(c)) \div NoiseRes,
               (sgn(cell) * ks * Abs(s_step(c))) \div NoiseRes,
               (-sgn(cell) * ks * Abs(l_step(c))) \div NoiseRes >>]
         : kh \in -NoiseRes..NoiseRes, ks \in -NoiseRes..NoiseRes }

(* ------------------- transparent_png_colorizer.py: generate_unique_colors *)
RECURSIVE GCD(_, _)
GCD(a, b) == IF b = 0 THEN a ELSE GCD(b, a % b)

\* Rows drawn independently instead of permuted: every row takes the same
\* old row (sampling with replacement).
ShuffleWithReplacement(P) ==
    IF P = 0 THEN {<<>>} ELSE { [r \in 1..P |-> b] : b \in 1..P }

\* np.random.shuffle(all_colors): the arrangements it can leave, as the
\* sequence of old row numbers now at rows 1..P.  A bounded family of the
\* P! permutations: row r gets old row 1 + (a*(r-1) + b) mod P for strides a
\* coprime to P (1, 2 or 3, and P-1) and every offset b.
ShuffleOutcomes(P) ==
    IF P = 0 THEN {<<>>}
    ELSE { [r \in 1..P |-> 1 + ((a * (r - 1) + b) % P)]
           : a \in {x \in 1..P : GCD(x, P) = 1 /\ (x <= 3 \/ x = P - 1)}, b \in 0..(P - 1) }

\* The array after the in-place shuffle that leaves old row ord[r] at row r.
Permuted(arr, ord) == [r \in 1..Len(arr) |-> arr[ord[r]]]

\* all_colors[:num_colors]
SelectPrefix(arr, n) == SubSeq(arr, 1, Min(n, Len(arr)))

\* (v * 255).astype(np.uint8) for one component v over U^3: truncation.
\* floor(v*255 / U^3), computed in two divisions to stay within 32 bits.
ToUint8(v, U) ==
    LET q == v \div (U * U)
        r == v % (U * U)
    IN ((q * 255 + (r * 255) \div (U * U)) \div U) % 256

Scale255(rgb, U) == <<ToUint8(rgb[1], U), ToUint8(rgb[2], U), ToUint8(rgb[3], U)>>

(* ------------- transparent_png_colorizer.py: apply_color_to_transparent_png *)
\* The two weights exchanged: src * (1 - alpha) + background * alpha.
BlendChannelSwapped(src, a, bg) == ((src * (255 - a) + bg * a) \div 255) % 256

\* One channel of one pixel: src * alpha + background * (1 - alpha) with
\* alpha = A / 255.0, stored into the uint8 array, which truncates.  The
\* quotient is exact here; on the sampled pixels and colors below the float
\* evaluation stores the same byte.
BlendChannel(src, a, bg) == ((src * a + bg * (255 - a)) \div 255) % 256

BlendPixel(px, bg) ==
    << BlendChannel(px[1], px[4], bg[1]),
       BlendChannel(px[2], px[4], bg[2]),
       BlendChannel(px[3], px[4], bg[3]),
       255 >>

\* The array written to output_path for the RGBA array data and the color bg.
ApplyColor(data, bg) == [p \in 1..Len(data) |-> BlendPixel(data[p], bg)]

\* generate_unique_colors(num_colors, use_disturbance) as one call, for the
\* draws field (add_disturbance) and ord (shuffle); c has DIVISIONS >= 1.
generate_unique_colors(c, n, use, field, ord) ==
    LET g == create_hsl_space(c)
        cube == IF use THEN add_disturbance(c, g.hsl_cube, g.rgb_cube, field).rgb_cube
                ELSE g.rgb_cube
        selected == SelectPrefix(Permuted(cube, ord), n)
    IN [r \in 1..Len(selected) |-> Scale255(selected[r], One(c.DIVISIONS))]

(* ----------------- transparent_png_colorizer.py: check_dataset, file names *)
RECURSIVE Digits(_)
\* str(k) for k >= 0, as the sequence of its decimal digits.
Digits(k) == IF k < 10 THEN <<k>> ELSE Append(Digits(k \div 10), k % 10)

RECURSIVE ZFill(_, _)
\* s.zfill(width): zeros on the left up to width, never a cut.
ZFill(ds, width) == IF Len(ds) >= width THEN ds ELSE ZFill(<<0>> \o ds, width)

\* str(i + 1).zfill(digits), the stem of the i-th output (i counted from 0).
OutputStem(i, digits) == ZFill(Digits(i + 1), digits)

\* check_dataset(image_files, image_captions), on the stems of the two sorted
\* listings: "ok" or the ValueError it raises.
check_dataset(image_files, image_captions) ==
    LET len_img == Len(image_files)
        len_txt == Len(image_captions)
        img_txt_pairs == { n \in 1..Min(len_img, len_txt) : image_files[n] = image_captions[n] }
    IN IF len_img = 0 \/ len_txt = 0 THEN "ValueError: no pairs"
       ELSE IF len_img # len_txt THEN "ValueError: count mismatch"
       ELSE IF len_img # Cardinality(img_txt_pairs) THEN "ValueError: name mismatch"
       ELSE "ok"

(* ------------------------------------------------------------------ state *)
VARIABLES
    cfg,                 \* the module constants of color_cube.py
    \* generate_unique_colors
    pc,                  \* position in generate_unique_colors
    num_colors,          \* argument
    use_disturbance,     \* argument
    hsl_cube, rgb_cube,  \* create_hsl_space()'s arrays
    disturbed_hsl_cube, disturbed_rgb_cube,   \* add_disturbance()'s arrays
    pool,                \* the flattened color cube as it was before the shuffle
    order,               \* old row of the pool now at each row of all_colors
    result,              \* the returned list
    \* add_disturbance, one loop iteration
    d_pc,                \* position in the loop body
    d_cell,              \* the cell (i, j, k) of the iteration, flattened
    d_noise,             \* its draws <<dh, ds, dl>>
    d_hsl,               \* disturbed_hsl_cube[i, j, k] it wrote
    \* apply_color_to_transparent_png
    b_pc,                \* position in apply_color_to_transparent_png
    img,                 \* the RGBA pixels of the file at png_path
    img_size,            \* <<width, height>>
    color,               \* argument
    saved,               \* the pixels saved to output_path
    \* main
    m_pc,                \* position in main / copy_input_files
    args,                \* the parsed command line
    png_files,           \* the .png files found in input_dir
    colors,              \* generate_unique_colors' list
    i,                   \* the loop index
    output_dir,          \* the files written to output_dir, in the order written
    img_txt_pairs,       \* <<image stems, caption stems>> listed in copy_input_dir
    copy_output_dir      \* the files copied to copy_output_dir, in the order written

sVars == <<pc, num_colors, use_disturbance, hsl_cube, rgb_cube,
           disturbed_hsl_cube, disturbed_rgb_cube, pool, order, result>>
dVars == <<d_pc, d_cell, d_noise, d_hsl>>
bVars == <<b_pc, img, img_size, color, saved>>
mVars == <<m_pc, args, png_files, colors, i, output_dir, img_txt_pairs, copy_output_dir>>
vars == <<cfg, sVars, dVars, bVars, mVars>>

\* color_cube / all_colors: reshape(-1, 3) of a contiguous array is a view, so
\* all_colors is the chosen cube itself.
all_colors == IF use_disturbance THEN disturbed_rgb_cube ELSE rgb_cube

SourceConfig(D) == MakeConfig(D, <<Range(0, 2), Range(0, 2), Range(0, 2), Range(0, 2)>>)

IdleSampler ==
    /\ pc = "off" /\ num_colors = 0 /\ use_disturbance = FALSE
    /\ hsl_cube = <<>> /\ rgb_cube = <<>>
    /\ disturbed_hsl_cube = <<>> /\ disturbed_rgb_cube = <<>>
    /\ pool = <<>> /\ order = <<>> /\ result = <<>>
IdleDisturb == d_pc = "off" /\ d_cell = 0 /\ d_noise = <<0, 0, 0>> /\ d_hsl = <<0, 0, 0>>
IdleBlend == b_pc = "off" /\ img = <<>> /\ img_size = <<0, 0>> /\ color = <<0, 0, 0>> /\ saved = <<>>
IdleMain ==
    /\ m_pc = "off" /\ args = [num_colors |-> 0] /\ png_files = 0 /\ colors = <<>> /\ i = 0
    /\ output_dir = <<>> /\ img_txt_pairs = <<>> /\ copy_output_dir = <<>>

(* --------------------------------------- generate_unique_colors, by steps *)
InitSampler ==
    /\ cfg \in Configs
    /\ pc = "start"
    /\ num_colors \in 0..MaxNumColors
    /\ use_disturbance \in BOOLEAN
    /\ hsl_cube = <<>> /\ rgb_cube = <<>>
    /\ disturbed_hsl_cube = <<>> /\ disturbed_rgb_cube = <<>>
    /\ pool = <<>> /\ order = <<>> /\ result = <<>>

\* line 23: hsl_cube, rgb_cube = create_hsl_space()
CreateHslSpace ==
    /\ pc = "start"
    /\ IF CreateRaises(cfg)
       THEN /\ pc' = "raised"
            /\ UNCHANGED <<hsl_cube, rgb_cube>>
       ELSE /\ pc' = "created"
            /\ hsl_cube' = create_hsl_space(cfg).hsl_cube
            /\ rgb_cube' = create_hsl_space(cfg).rgb_cube
    /\ UNCHANGED <<cfg, num_colors, use_disturbance, disturbed_hsl_cube,
                   disturbed_rgb_cube, pool, order, result, dVars, bVars, mVars>>

\* lines 25-29: _, disturbed_rgb_cube = add_disturbance(hsl_cube, rgb_cube)
AddDisturbance ==
    /\ pc = "created" /\ use_disturbance
    /\ IF DisturbRaises(cfg)
       THEN /\ pc' = "raised"
            /\ UNCHANGED <<disturbed_hsl_cube, disturbed_rgb_cube>>
       ELSE /\ pc' = "flatten"
            /\ \E field \in NoiseFields(cfg) :
                  /\ disturbed_hsl_cube' = add_disturbance(cfg, hsl_cube, rgb_cube, field).hsl_cube
                  /\ disturbed_rgb_cube' = add_disturbance(cfg, hsl_cube, rgb_cube, field).rgb_cube
    /\ UNCHANGED <<cfg, num_colors, use_disturbance, hsl_cube, rgb_cube, pool, order,
                   result, dVars, bVars, mVars>>

\* lines 30-32: color_cube = rgb_cube
KeepOriginal ==
    /\ pc = "created" /\ ~use_disturbance
    /\ pc' = "flatten"
    /\ UNCHANGED <<cfg, num_colors, use_disturbance, hsl_cube, rgb_cube,
                   disturbed_hsl_cube, disturbed_rgb_cube, pool, order, result,
                   dVars, bVars, mVars>>

\* lines 35-38: all_colors = color_cube.reshape(-1, 3); np.random.shuffle(all_colors)
Shuffle ==
    /\ pc = "flatten"
    /\ pool' = all_colors
    /\ \E ord \in ShuffleOutcomes(Len(all_colors)) :
          /\ order' = ord
          /\ IF use_disturbance
             THEN /\ disturbed_rgb_cube' = Permuted(disturbed_rgb_cube, ord)
                  /\ UNCHANGED rgb_cube
             ELSE /\ rgb_cube' = Permuted(rgb_cube, ord)
                  /\ UNCHANGED disturbed_rgb_cube
    /\ pc' = "shuffled"
    /\ UNCHANGED <<cfg, num_colors, use_disturbance, hsl_cube, disturbed_hsl_cube, result,
                   dVars, bVars, mVars>>

\* lines 41-47: slice, scale to 0..255, return the list of tuples
SelectColors ==
    /\ pc = "shuffled"
    /\ result' = [r \in 1..Len(SelectPrefix(all_colors, num_colors)) |->
                    Scale255(SelectPrefix(all_colors, num_colors)[r], One(cfg.DIVISIONS))]
    /\ pc' = "returned"
    /\ UNCHANGED <<cfg, num_colors, use_disturbance, hsl_cube, rgb_cube,
                   disturbed_hsl_cube, disturbed_rgb_cube, pool, order, dVars, bVars, mVars>>

(* --------------------------------------- add_disturbance, one loop iteration *)
\* Every pairing of the value ranges below, for grids of 1..MaxDivisions.
DisturbRangeSets ==
    { <<s, l, ds, dl>> : s \in {Range(0, 2), Range(1, 2), Range(2, 0)},
                         l \in {Range(0, 2), Range(0, 1)},
                         ds \in {Range(0, 2), Range(1, 2), Range(1, 1)},
                         dl \in {Range(0, 2), Range(0, 1)} }

InitDisturb ==
    /\ cfg \in { MakeConfig(D, rs) : D \in 1..MaxDivisions, rs \in DisturbRangeSets }
    /\ d_pc = "body"
    /\ d_cell \in 1..PoolSize(cfg.DIVISIONS)
    /\ d_noise = <<0, 0, 0>> /\ d_hsl = <<0, 0, 0>>

\* lines 106-120: the loop body for cell d_cell
DisturbIteration ==
    /\ d_pc = "body"
    /\ \E dh \in NoiseDraws(h_step(cfg)), ds \in NoiseDraws(s_step(cfg)),
          dl \in NoiseDraws(l_step(cfg)) :
          /\ d_noise' = <<dh, ds, dl>>
          /\ d_hsl' = DisturbCell(cfg, GridHsl(cfg, d_cell), <<dh, ds, dl>>)
    /\ d_pc' = "written"
    /\ UNCHANGED <<cfg, d_cell, sVars, bVars, mVars>>

(* ------------------------------------ apply_color_to_transparent_png(...) *)
MaxSide == 2            \* largest image width and height

SourceColors == { <<0, 0, 0>>, <<255, 128, 1>>, <<255, 255, 255>> }
AlphaSamples == { 0, 1, 127, 128, 250, 255 }
BackgroundColors == { <<255, 0, 0>>, <<0, 0, 0>>, <<1, 128, 255>>, <<255, 255, 255>> }
PixelSamples == { <<c[1], c[2], c[3], a>> : c \in SourceColors, a \in AlphaSamples }

\* Images of w x h pixels that alternate between two sample pixels.
Images(w, h) ==
    { [p \in 1..(w * h) |-> IF p % 2 = 1 THEN p1 ELSE p2] : p1 \in PixelSamples, p2 \in PixelSamples }

InitBlend ==
    /\ b_pc = "start"
    /\ img_size \in (1..MaxSide) \X (1..MaxSide)
    /\ img \in Images(img_size[1], img_size[2])
    /\ color \in BackgroundColors
    /\ saved = <<>>

\* lines 59-84: the whole function
ApplyColorToTransparentPng ==
    /\ b_pc = "start"
    /\ saved' = ApplyColor(img, color)
    /\ b_pc' = "saved"
    /\ UNCHANGED <<cfg, img, img_size, color, sVars, dVars, mVars>>

(* ------------------------------------------------------------------- main *)
MaxPngs == 2            \* most .png files in input_dir

\* The file at png_files[n] (n from 0): a 1 x 1 image.
PngImage(n) == << <<255, 128, 1, IF n % 2 = 0 THEN 0 ELSE 128>> >>

\* The stems of the image files and of the caption files of copy_input_dir,
\* each sorted.
Datasets ==
    { << <<>>, <<>> >>, << <<1>>, <<>> >>, << <<1>>, <<1>> >>, << <<1, 2>>, <<1>> >>,
      << <<1, 2>>, <<1, 3>> >>, << <<1, 2>>, <<1, 2>> >> }

InitMain ==
    /\ cfg \in { SourceConfig(D) : D \in 1..MaxDivisions }
    /\ m_pc = "start"
    /\ args \in [ num_colors : 0..MaxNumColors, digits : {1, 4}, add_disturbance : BOOLEAN,
                  copy_input_dir : BOOLEAN ]
    /\ png_files = 0 /\ colors = <<>> /\ i = 0
    /\ output_dir = <<>> /\ img_txt_pairs = <<>> /\ copy_output_dir = <<>>

\* lines 167-182: parse, make output_dir, list the .png files
ListPngs ==
    /\ m_pc = "start"
    /\ \E n \in 0..MaxPngs :
          /\ png_files' = n
          /\ m_pc' = IF n = 0 THEN "done" ELSE "generate"
    /\ UNCHANGED <<cfg, args, colors, i, output_dir, img_txt_pairs, copy_output_dir,
                   sVars, dVars, bVars>>

\* lines 184-191: colors = generate_unique_colors(args.num_colors, use_disturbance)
GenerateColors ==
    /\ m_pc = "generate"
    /\ \E field \in NoiseFields(cfg), ord \in ShuffleOutcomes(PoolSize(cfg.DIVISIONS)) :
          colors' = generate_unique_colors(cfg, args.num_colors, args.add_disturbance, field, ord)
    /\ m_pc' = "loop" /\ i' = 0
    /\ UNCHANGED <<cfg, args, png_files, output_dir, img_txt_pairs, copy_output_dir,
                   sVars, dVars, bVars>>

\* lines 194-212: one iteration of `for i in range(total_outputs)`
ProcessOutput ==
    /\ m_pc = "loop" /\ i < args.num_colors
    /\ IF i + 1 > Len(colors)
       THEN \* colors[color_index] raises IndexError
            /\ m_pc' = "IndexError"
            /\ UNCHANGED <<i, output_dir>>
       ELSE /\ output_dir' = Append(output_dir,
                 [ stem   |-> OutputStem(i, args.digits),
                   png    |-> i % png_files,
                   color  |-> colors[i + 1],
                   pixels |-> ApplyColor(PngImage(i % png_files), colors[i + 1]) ])
            /\ i' = i + 1
            /\ UNCHANGED m_pc
    /\ UNCHANGED <<cfg, args, png_files, colors, img_txt_pairs, copy_output_dir,
                   sVars, dVars, bVars>>

\* lines 214-215: the loop is over; `if args.copy_input_dir:`
EndLoop ==
    /\ m_pc = "loop" /\ i = args.num_colors
    /\ m_pc' = IF args.copy_input_dir THEN "copy_input_files" ELSE "done"
    /\ UNCHANGED <<cfg, args, png_files, colors, i, output_dir, img_txt_pairs,
                   copy_output_dir, sVars, dVars, bVars>>

\* lines 112-131: copy_input_files up to its loop: list both kinds of files,
\* check_dataset
CheckDataset ==
    /\ m_pc = "copy_input_files"
    /\ \E ds \in Datasets :
          /\ img_txt_pairs' = ds
          /\ m_pc' = IF check_dataset(ds[1], ds[2]) = "ok" THEN "copy" ELSE "ValueError"
    /\ i' = 0
    /\ UNCHANGED <<cfg, args, png_files, colors, output_dir, copy_output_dir,
                   sVars, dVars, bVars>>

\* lines 134-145: one iteration of `for i in range(num_colors)`
CopyPair ==
    /\ m_pc = "copy" /\ i < args.num_colors
    /\ LET pair_index == i % Len(img_txt_pairs[1]) IN
       copy_output_dir' = copy_output_dir \o
          << [ stem |-> OutputStem(i, args.digits), ext |-> ".png",
               from |-> img_txt_pairs[1][pair_index + 1] ],
             [ stem |-> OutputStem(i, args.digits), ext |-> ".txt",
               from |-> img_txt_pairs[2][pair_index + 1] ] >>
    /\ i' = i + 1
    /\ UNCHANGED <<cfg, m_pc, args, png_files, colors, output_dir, img_txt_pairs,
                   sVars, dVars, bVars>>

\* the copy loop is over: copy_input_files and main return
CopyDone ==
    /\ m_pc = "copy" /\ i = args.num_colors
    /\ m_pc' = "done"
    /\ UNCHANGED <<cfg, args, png_files, colors, i, output_dir, img_txt_pairs,
                   copy_output_dir, sVars, dVars, bVars>>

(* --------------------------------------------------------- specifications *)
Init == InitSampler /\ IdleDisturb /\ IdleBlend /\ IdleMain
Next == CreateHslSpace \/ AddDisturbance \/ KeepOriginal \/ Shuffle \/ SelectColors
Spec == Init /\ [][Next]_vars

InitD == InitDisturb /\ IdleSampler /\ IdleBlend /\ IdleMain
NextD == DisturbIteration
SpecDisturb == InitD /\ [][NextD]_vars

InitB == cfg = SourceConfig(1) /\ InitBlend /\ IdleSampler /\ IdleDisturb /\ IdleMain
NextB == ApplyColorToTransparentPng
SpecBlend == InitB /\ [][NextB]_vars

InitM == InitMain /\ IdleSampler /\ IdleDisturb /\ IdleBlend
NextM == ListPngs \/ GenerateColors \/ ProcessOutput \/ EndLoop \/ CheckDataset
         \/ CopyPair \/ CopyDone
SpecMain == InitM /\ [][NextM]_vars

(* ----------------------------------------------------------------- claims *)
Channels == 1..3
CreateReturned == pc \in {"created", "flatten", "shuffled", "returned"}
InSync(hsl, rgb, U) ==
    /\ Len(hsl) = Len(rgb)
    /\ \A cell \in 1..Len(hsl) : rgb[cell] = hsl_to_rgb(hsl[cell][1], hsl[cell][2], hsl[cell][3], U)

\* C1: generate_unique_colors(N) returns exactly N triples, every channel an
\* integer in 0..255, for every N >= 0, also when N exceeds the pool size D^3.
C1_ReturnsRequestedCount ==
    (pc = "returned" /\ cfg.DIVISIONS >= 1) =>
        /\ Len(result) = num_colors
        /\ \A r \in 1..Len(result) : \A ch \in Channels : result[r][ch] \in 0..255

\* C2: with the default ranges [0,1], no disturbance and N <= D^3, the N
\* returned triples are pairwise distinct.
C2_DistinctColors ==
    (/\ pc = "returned" /\ ~use_disturbance
     /\ cfg.DIVISIONS >= 1 /\ DefaultRanges(cfg)
     /\ num_colors <= PoolSize(cfg.DIVISIONS)) =>
        \A a \in 1..Len(result) : \A b \in 1..Len(result) : a # b => result[a] # result[b]

\* C3: for N <= D^3 the pool is permuted and its first N rows are taken: the
\* result has N entries and never more, entry r is the 8-bit scaling of the
\* pool row the shuffle put at row r, and no pool row is taken twice.
C3_SampleWithoutReuse ==
    (pc = "returned" /\ num_colors <= Len(pool)) =>
        /\ Len(result) = num_colors
        /\ Len(order) = Len(pool)
        /\ \A r \in 1..Len(order) : order[r] \in 1..Len(pool)
        /\ \A r \in 1..Len(result) : result[r] = Scale255(pool[order[r]], One(cfg.DIVISIONS))
        /\ \A a \in 1..Len(result) : \A b \in 1..Len(result) : a # b => order[a] # order[b]

\* C3 witness: five colors returned from the eight jittered cells of a D = 2
\* grid, the shuffle having moved the first row.
C3_Witness ==
    /\ pc = "returned" /\ use_disturbance
    /\ Len(pool) = 8 /\ num_colors = 5 /\ Len(result) = 5
    /\ order[1] # 1
    /\ result[1] # result[2]

\* C7: create_hsl_space returns no grid when DIVISIONS <= 0 or when a
\* saturation or lightness range has min > max.
C7_InvalidConfigRejected ==
    CreateReturned =>
        /\ cfg.DIVISIONS > 0
        /\ cfg.S_MIN <= cfg.S_MAX
        /\ cfg.L_MIN <= cfg.L_MAX

\* C9: once a grid is built, every cell of its RGB array is hsl_to_rgb of the
\* same cell of its HSL array, at every later point of generate_unique_colors
\* (after create_hsl_space, after add_disturbance, after the shuffle and the
\* selection).
C9_RgbIsImageOfHsl ==
    CreateReturned =>
        /\ InSync(hsl_cube, rgb_cube, One(cfg.DIVISIONS))
        /\ InSync(disturbed_hsl_cube, disturbed_rgb_cube, One(cfg.DIVISIONS))

\* C8: the loop body of add_disturbance leaves a hue h with 0 <= h < 1 and a
\* saturation and lightness inside [DISTURB_*_MIN, DISTURB_*_MAX], for every
\* cell and every draw within the jitter bounds.
C8_DisturbedInRange ==
    d_pc = "written" =>
        /\ 0 <= d_hsl[1] /\ d_hsl[1] < One(cfg.DIVISIONS)
        /\ cfg.DISTURB_S_MIN <= d_hsl[2] /\ d_hsl[2] <= cfg.DISTURB_S_MAX
        /\ cfg.DISTURB_L_MIN <= d_hsl[3] /\ d_hsl[3] <= cfg.DISTURB_L_MAX

\* round(n / 255) for n >= 0 (n / 255 is never halfway between two integers).
RoundDiv255(n) == (2 * n + 255) \div 510

\* C5: every saved channel is round(source * A/255 + background * (1 - A/255)),
\* rounded to nearest, not truncated.
C5_BlendRounds ==
    b_pc = "saved" =>
        \A p \in 1..Len(img) : \A ch \in Channels :
            saved[p][ch] = RoundDiv255(img[p][ch] * img[p][4] + color[ch] * (255 - img[p][4]))

\* C6: a pixel of alpha 255 keeps its source RGB exactly and a pixel of alpha
\* 0 takes the background color exactly.
C6_OpaqueAndTransparent ==
    b_pc = "saved" =>
        /\ Len(saved) = Len(img)
        /\ \A p \in 1..Len(img) : \A ch \in Channels :
              /\ img[p][4] = 255 => saved[p][ch] = img[p][ch]
              /\ img[p][4] = 0 => saved[p][ch] = color[ch]

\* C6 witness: a 2 x 2 image of transparent and opaque pixels over red.
C6_Witness ==
    /\ b_pc = "saved" /\ img_size = <<2, 2>> /\ color = <<255, 0, 0>>
    /\ img[1] = <<0, 0, 0, 0>> /\ img[2] = <<255, 128, 1, 255>>
    /\ saved[1] = <<255, 0, 0, 255>> /\ saved[2] = <<255, 128, 1, 255>>
    /\ saved[3] = <<255, 0, 0, 255>>

\* C4: when check_dataset fails, nothing has been written: no composited image
\* in output_dir and no copied file in copy_output_dir exists at the moment the
\* ValueError is raised.
C4_ValidationBeforeOutput ==
    m_pc = "ValueError" => (output_dir = <<>> /\ copy_output_dir = <<>>)

\* C10: with M >= 1 source files the loop of main never stops on an index
\* error and, once over, has written exactly N files, the k-th named k padded
\* to the digit width and composited from source (k-1) mod M with color k-1.
C10_BatchCompletes ==
    /\ m_pc # "IndexError"
    /\ (m_pc \in {"copy_input_files", "copy", "ValueError", "done"} /\ png_files >= 1) =>
          /\ Len(output_dir) = args.num_colors
          /\ \A k \in 1..Len(output_dir) :
                /\ output_dir[k].stem = ZFill(Digits(k), args.digits)
                /\ output_dir[k].png = (k - 1) % png_files
                /\ output_dir[k].color = colors[k]

====
